---- MODULE Spec2Model ----
(***************************************************************************)
(* The remote-call dispatcher of kenya_compliance_via_slade:                *)
(* apis.process_request and the direct users of the module-level            *)
(* endpoints_builder, as a state machine.                                   *)
(*                                                                          *)
(* Encoding of Python values.  A text is a sequence of string tokens, so    *)
(* that an f-string is the concatenation of its parts: "" is << >> and      *)
(* None is the one-token text NoneV.  A mapping of the request payload is a *)
(* record over the bookkeeping keys, each holding ABSENT (key not in the    *)
(* mapping), NULL (None), "" or a non-empty string.                         *)
(***************************************************************************)
EXTENDS Naturals, Sequences, FiniteSets

Procs == {1, 2}

\* The server answers at most MaxPages pages to one dispatch.
MaxPages == 3

\* The most items a search response holds.
MaxResults == 41

------------------------------------------------------------------------------
(* Python values *)

NoneV == << "<None>" >>
ABSENT == "<absent>"
NULL == "<null>"
Unset == "<unset>"

\* bool(v) of a text or None
Truthy(v) == v # NoneV /\ v # << >>

\* bool(v) of a payload value
TruthyVal(v) == v # ABSENT /\ v # NULL /\ v # ""

\* d.get(k, None) for a mapping field
Get(v) == IF v = ABSENT THEN NULL ELSE v

\* a or b
OrElse(a, b) == IF TruthyVal(a) THEN a ELSE b

------------------------------------------------------------------------------
(* Inputs *)

DocNames == {ABSENT, "", "DOC-1"}
CompanyNames == {ABSENT, NULL, "Acme"}

\* The keys id and name are those the save operations send; the payloads of
\* the search operations carry neither.
Mappings ==
    [document_name : DocNames, company_name : CompanyNames,
     id : {ABSENT}, name : {ABSENT}]

FullMapping ==
    [document_name |-> "DOC-1", company_name |-> "Acme", id |-> ABSENT, name |-> ABSENT]
FalsyMapping ==
    [document_name |-> "", company_name |-> NULL, id |-> ABSENT, name |-> ABSENT]

DictPayloads == {[kind |-> "dict", items |-> << m >>] : m \in Mappings}

ListPayloads ==
    {[kind |-> "list", items |-> s] :
        s \in {<< >>, << FullMapping >>, << FalsyMapping >>,
               << FullMapping, FalsyMapping >>}}

Payloads == DictPayloads \cup ListPayloads

NoPayload == [kind |-> "none", items |-> << >>]

\* request_data given as a string: the JSON text of a mapping (json_dict), the
\* JSON text of a list (json_list), or a text that is not JSON (json_invalid).
JsonOf(payload) ==
    [kind |-> IF payload.kind = "dict" THEN "json_dict" ELSE "json_list",
     items |-> payload.items]

InvalidJson == [kind |-> "json_invalid", items |-> << >>]

JsonTexts ==
    {JsonOf([kind |-> "dict", items |-> << FullMapping >>]),
     JsonOf([kind |-> "list", items |-> << FullMapping, FalsyMapping >>]),
     InvalidJson}

RequestDatas == Payloads \cup JsonTexts

\* isinstance(request_data, str)
IsText(request_data) == request_data.kind \in {"json_dict", "json_list", "json_invalid"}

\* The callers of process_request: each fixes route_key, handler_function,
\* request_method and doctype.
SETTINGS_DOCTYPE_NAME == "Settings"

perform_customer_search ==
    [route_key |-> "CustSearchReq", handler_function |-> "customer_search_on_success",
     request_method |-> "POST", doctype |-> "Customer"]

fetch_item_details ==
    [route_key |-> "ItemSearchReq", handler_function |-> "item_search_on_success",
     request_method |-> "GET", doctype |-> "Item"]

perform_notice_search ==
    [route_key |-> "NoticeSearchReq", handler_function |-> "notices_search_on_success",
     request_method |-> "GET", doctype |-> SETTINGS_DOCTYPE_NAME]

Callers == {perform_customer_search, fetch_item_details, perform_notice_search}

\* update_imported_item_request: the HTTP method it means, PUT, is passed
\* under the keyword `method`.
update_imported_item_request ==
    [route_key |-> "ImportItemUpdateReq",
     handler_function |-> "imported_item_submission_on_success",
     request_method |-> "PUT", doctype |-> "Item"]

\* submit_uom_list: the payload is the list of the UOMs without a Slade id.
submit_uom_list ==
    [route_key |-> "UOMListSearchReq", handler_function |-> "uom_search_on_success",
     request_method |-> "POST", doctype |-> "UOM"]

UomItem ==
    [document_name |-> ABSENT, company_name |-> ABSENT, id |-> ABSENT, name |-> "Unit"]

UomLists == {[kind |-> "list", items |-> s] : s \in {<< >>, << UomItem >>}}

\* fetch_etims_warehouse_list: two dispatches with the one request_data.
fetch_etims_warehouse_list ==
    << [route_key |-> "WarehousesSearchReq",
        handler_function |-> "warehouse_search_on_success",
        request_method |-> "GET", doctype |-> "Warehouse"],
       [route_key |-> "LocationsSearchReq",
        handler_function |-> "location_search_on_success",
        request_method |-> "GET", doctype |-> "Warehouse"] >>

AllCallers ==
    Callers \cup {update_imported_item_request, submit_uom_list}
            \cup {fetch_etims_warehouse_list[i] : i \in 1 .. 2}

\* The parameters of process_request, and the keywords each caller passes.
Parameters ==
    {"request_data", "route_key", "handler_function", "request_method", "doctype"}

KeywordsOf(c) ==
    IF c = update_imported_item_request THEN {"method", "doctype"}
    ELSE IF c = perform_notice_search THEN {}
    ELSE IF c.request_method = "GET" THEN {"doctype"}
    ELSE {"request_method", "doctype"}

SuccessHandlers == {c.handler_function : c \in Callers}

on_slade_error == "on_slade_error"
on_error == "on_error"

\* The number of positional parameters of a success handler: (response) or
\* (response, document_name).
ArityOf(handler) ==
    IF handler \in {"customer_search_on_success",
                    "customer_insurance_details_submission_on_success",
                    "imported_item_submission_on_success",
                    "submit_inventory_on_success"}
    THEN 2 ELSE 1

\* frappe.defaults.get_user_default("Company") / ("Branch")
DefaultCompany == "DefaultCo"
DefaultBranch == "DefaultBranch"

\* build_headers(company_name, branch_id): None when the credentials are
\* missing, else the auth headers of that company and branch.
HeadersOf(company_name, branch_id, present) ==
    IF present THEN << "Bearer", company_name, branch_id >> ELSE << >>

\* get_server_url(company_name, branch_id)
ServerUrls == {NoneV, << >>, << "https://slade.example" >>}

\* The server url and the payload of the narrowed inputs.
ConcServerUrl == << "https://slade.example" >>

ConcPayloads == {[kind |-> "dict", items |-> << FullMapping >>]}

\* get_route_path(route_key, "VSCU Slade 360")[0]
RoutePathOf(route_key, present) ==
    IF present THEN << "/api/", route_key, "/" >> ELSE << >>

\* process_dynamic_url(route_path, request_data): the route templates of the
\* modelled callers carry no dynamic segment, so rendering substitutes nothing.
process_dynamic_url(route_path, request_data) == route_path

------------------------------------------------------------------------------
(* Server responses *)

NextUrls == {<< "https://slade.example/x?page=2" >>, << "https://slade.example/x?page=3" >>}

\* Parsed response bodies.  kind "dict": a mapping, with or without the key
\* next; kind "list": a bare list, whose elements may be mappings that carry a
\* next key (hasNext); kind "str": a text body; kind "none": no value.
DictBodies ==
    {[kind |-> "dict", hasNext |-> FALSE, next |-> NoneV]}
    \cup {[kind |-> "dict", hasNext |-> TRUE, next |-> n] :
            n \in {NoneV, << >>} \cup NextUrls}

OtherBodies ==
    {[kind |-> "list", hasNext |-> FALSE, next |-> NoneV],
     [kind |-> "list", hasNext |-> TRUE, next |-> CHOOSE n \in NextUrls : TRUE],
     [kind |-> "str", hasNext |-> FALSE, next |-> NoneV],
     [kind |-> "none", hasNext |-> FALSE, next |-> NoneV]}

Bodies == DictBodies \cup OtherBodies

NoneBody == [kind |-> "none", hasNext |-> FALSE, next |-> NoneV]

ErrorBodies ==
    {[kind |-> "dict", hasNext |-> FALSE, next |-> NoneV],
     [kind |-> "dict", hasNext |-> TRUE, next |-> CHOOSE n \in NextUrls : TRUE],
     [kind |-> "str", hasNext |-> FALSE, next |-> NoneV]}

\* What one remote call ends in: a 2xx response, a non-2xx response, or a
\* transport failure (no response; the body is the error detail).
Outcomes ==
    {[status |-> "ok", body |-> b] : b \in Bodies}
    \cup {[status |-> "http_error", body |-> b] : b \in ErrorBodies}
    \cup {[status |-> "transport", body |-> [kind |-> "str", hasNext |-> FALSE, next |-> NoneV]]}

\* The cursor a body offers: the value of the next key of a mapping body.
CursorOf(body) == IF body.kind = "dict" /\ body.hasNext THEN body.next ELSE NoneV

------------------------------------------------------------------------------
(* process_request: the pure steps *)

\* Calling process_request with a keyword that is not one of its parameters
\* raises TypeError before its body runs.
BindRaises(c) == ~(KeywordsOf(c) \subseteq Parameters)

\* Mutant: a text that does not parse is taken as no data.
JsonRaises_Never(request_data) == FALSE

\* json.loads raises on a text that is not JSON.
JsonRaises(request_data) == request_data.kind = "json_invalid"

\* json.loads: the mapping or the list a JSON text denotes, a new object.
json_loads(text) ==
    [kind |-> IF text.kind = "json_dict" THEN "dict" ELSE "list",
     items |-> text.items]

\* data: the parsed text for a string, request_data itself for a dict or list.
ParsedData(request_data) ==
    IF IsText(request_data) THEN json_loads(request_data) ELSE request_data

\* The caller's request_data once process_request is through with data: a
\* string is as it was; a dict or a list is the very object data names, so it
\* is as the GET branch left it.
CallerDataAfter(request_data, data) ==
    IF IsText(request_data) THEN request_data ELSE data

\* isinstance(data, list) and not data: the else branch runs data.get on a
\* list, which raises AttributeError.
RaisesOnGet(data) == data.kind = "list" /\ data.items = << >>

\* first_entry of a non-empty list, the mapping itself otherwise
SourceMapping(data) == data.items[1]

CompanyNameOf(data) == OrElse(Get(SourceMapping(data).company_name), DefaultCompany)

\* No modelled payload carries the key branch_id, so the user default is used.
BranchIdOf(data) == DefaultBranch

\* Mutant: the document is read from the last entry of a list.
DocumentNameOf_LastEntry(data) == Get(data.items[Len(data.items)].document_name)

DocumentNameOf(data) == Get(SourceMapping(data).document_name)

\* data.pop(key) when key is in data and data[key] is truthy.  On a list,
\* `key in data` asks whether the string is an element of the list: it is
\* not, the elements being mappings, and nothing is removed.
PopIfTruthy(v) == IF v # ABSENT /\ TruthyVal(v) THEN ABSENT ELSE v

StripBookkeeping(request_method, data) ==
    IF request_method = "GET" /\ data.kind = "dict"
    THEN [data EXCEPT !.items =
            << [data.items[1] EXCEPT
                   !.document_name = PopIfTruthy(data.items[1].document_name),
                   !.company_name = PopIfTruthy(data.items[1].company_name)] >>]
    ELSE data

\* Mutant: `or` in place of `and`.
ConfigOk_Any(headers, server_url, route_path) ==
    Truthy(headers) \/ Truthy(server_url) \/ Truthy(route_path)

\* Mutant: the route path is left out of the configuration check.
ConfigOk_NoRoute(headers, server_url, route_path) ==
    Truthy(headers) /\ Truthy(server_url)

\* if headers and server_url and route_path
ConfigOk(headers, server_url, route_path) ==
    Truthy(headers) /\ Truthy(server_url) /\ Truthy(route_path)

\* Mutant: the route path is not appended to the server url.
FirstUrl_ServerOnly(server_url, route_path) == server_url

\* f"{server_url}{route_path}"
FirstUrl(server_url, route_path) == server_url \o route_path

\* Mutant: while True.
LoopContinues_Always(url) == TRUE

\* Mutant: while url is not None.
LoopContinues_NotNone(url) == url # NoneV

\* while url
LoopContinues(url) == Truthy(url)

\* Mutant: the else branch is missing, url keeps its value.
UrlAfterResponse_KeepUrl(url, response) ==
    IF response.kind = "dict" /\ response.hasNext THEN response.next ELSE url

\* Mutant: the cursor is never followed.
UrlAfterResponse_Stop(url, response) == NoneV

\* Mutant: the isinstance test is missing, a next found in any body is followed.
UrlAfterResponse_NoTypeCheck(url, response) ==
    IF response.hasNext THEN response.next ELSE NoneV

\* url after one page: response["next"] when the response is a dict that has
\* the key next, None otherwise.
UrlAfterResponse(url, response) ==
    IF response.kind = "dict" /\ response.hasNext THEN response.next ELSE NoneV

CompletedMsg(route_key) == << route_key, " completed successfully." >>

FailedMsg(route_key) ==
    << "Failed to process ", route_key, ". Missing required configuration." >>

\* Mutant: error_callback is not assigned.
SetBuilderFields_NoErr(b, l) ==
    [headers |-> l.headers, url |-> l.url, payload |-> l.data,
     request_description |-> l.route_key, method |-> l.request_method,
     success_callback |-> l.handler_function,
     error_callback |-> b.error_callback]

\* Mutant: success_callback is not assigned.
SetBuilderFields_NoSuccess(b, l) ==
    [headers |-> l.headers, url |-> l.url, payload |-> l.data,
     request_description |-> l.route_key, method |-> l.request_method,
     success_callback |-> b.success_callback,
     error_callback |-> on_slade_error]

\* Mutant: the error callback of the direct users, on_error, is assigned.
SetBuilderFields_OnError(b, l) ==
    [headers |-> l.headers, url |-> l.url, payload |-> l.data,
     request_description |-> l.route_key, method |-> l.request_method,
     success_callback |-> l.handler_function,
     error_callback |-> "on_error"]

\* Mutant: method is not assigned.
SetBuilderFields_NoMethod(b, l) ==
    [headers |-> l.headers, url |-> l.url, payload |-> l.data,
     request_description |-> l.route_key, method |-> b.method,
     success_callback |-> l.handler_function,
     error_callback |-> on_slade_error]

\* Mutant: document_name is not passed to make_remote_call.
CallArgs_NoDocument(l) == [doctype |-> l.doctype, document_name |-> Unset]

\* make_remote_call(doctype=doctype, document_name=document_name)
CallArgs(l) == [doctype |-> l.doctype, document_name |-> l.document_name]

\* The seven assignments to the shared builder at the top of the loop body.
SetBuilderFields(b, l) ==
    [headers |-> l.headers,
     url |-> l.url,
     payload |-> l.data,
     request_description |-> l.route_key,
     method |-> l.request_method,
     success_callback |-> l.handler_function,
     error_callback |-> on_slade_error]

------------------------------------------------------------------------------
(* EndpointsBuilder *)

\* EndpointsBuilder(): no field set yet.
InitBuilder ==
    [headers |-> << >>, url |-> NoneV, payload |-> NoPayload,
     request_description |-> Unset, method |-> Unset,
     success_callback |-> Unset, error_callback |-> Unset]

NoTarget == [doctype |-> Unset, name |-> Unset]

\* The record a success handler updates with frappe.db.set_value: its
\* doctype and its name, from the response (response_name is
\* response.get("name")) or from the document_name the handler is given.
HandlerTarget(fn, response_name, document_name) ==
    CASE fn = "item_registration_on_success" ->
            [doctype |-> "Item", name |-> response_name]
      [] fn = "submit_inventory_on_success" ->
            [doctype |-> "Stock Ledger Entry", name |-> document_name]
      [] fn = "imported_item_submission_on_success" ->
            [doctype |-> "Item", name |-> document_name]
      [] fn \in {"customer_search_on_success",
                 "customer_insurance_details_submission_on_success"} ->
            [doctype |-> "Customer", name |-> document_name]
      [] OTHER -> NoTarget

\* The name in the response to a save: the server answers with the record
\* as it stored it, under the name the request carried.
ResponseName(payload) ==
    IF payload.kind = "dict" /\ payload.items # << >>
    THEN Get(payload.items[1].name) ELSE NULL

\* make_remote_call: the handler invocations one call makes.  A 2xx response
\* goes to the success callback with the parsed body; a non-2xx response or a
\* transport failure goes to the error callback with the body (or the error
\* detail), the attempted url, the doctype and the document.  A callback that
\* was never set cannot be invoked.  args names the arguments the handler is
\* invoked with: a success handler gets the body, and the document given to
\* make_remote_call as well when it takes two parameters.
Invocations(b, doctype, document_name, outcome, page) ==
    LET fn == IF outcome.status = "ok" THEN b.success_callback ELSE b.error_callback
    IN  IF fn = Unset THEN << >>
        ELSE << [kind |-> IF outcome.status = "ok" THEN "success" ELSE "error",
                 fn |-> fn, body |-> outcome.body, url |-> b.url,
                 doctype |-> doctype, document_name |-> document_name,
                 args |-> IF outcome.status # "ok"
                          THEN << "response", "url", "doctype", "document_name" >>
                          ELSE IF ArityOf(fn) = 2
                               THEN << "response", "document_name" >>
                               ELSE << "response" >>,
                 target |-> IF outcome.status = "ok"
                            THEN HandlerTarget(fn, ResponseName(b.payload),
                                               document_name)
                            ELSE NoTarget,
                 page |-> page] >>

\* make_remote_call: its return value, the parsed body of a 2xx response and
\* nothing otherwise.
Returned(outcome) == IF outcome.status = "ok" THEN outcome.body ELSE NoneBody

\* What one remote call was performed with.
CallRecord(b, doctype, document_name, outcome, by) ==
    [url |-> b.url, headers |-> b.headers, payload |-> b.payload,
     method |-> b.method, request_description |-> b.request_description,
     success_callback |-> b.success_callback, error_callback |-> b.error_callback,
     doctype |-> doctype, document_name |-> document_name,
     status |-> outcome.status, body |-> outcome.body, writer |-> by]

------------------------------------------------------------------------------
(* State *)

VARIABLES
    pc,        \* where each worker is: idle, loop, call, dset, denq, done, raised
    loc,       \* the locals of the operation each worker runs
    builder,   \* the module-level endpoints_builder
    writer,    \* the worker that wrote the builder last (0: nobody)
    wrote,     \* whether the worker's current operation has written the builder
    calls,     \* the remote calls of the worker's current operation, in order
    handled,   \* the handler invocations of those calls, in order
    enqueued,  \* the calls the worker's current operation handed to frappe.enqueue
    site       \* the bulk operation or list handler the site is running

vars == << pc, loc, builder, writer, wrote, calls, handled, enqueued, site >>

NoPrior == [company_name |-> Unset, branch_id |-> Unset, document_name |-> Unset]

NoDoc ==
    [name |-> Unset, title |-> Unset, slade_id |-> NULL,
     sent_to_slade |-> FALSE, is_group |-> FALSE]

\* request_data: the argument as passed; caller_data: the caller's object as
\* process_request leaves it; batch: the dispatches the caller still has to
\* issue with that object; prior: what its previous dispatch resolved.
IdleLoc ==
    [op |-> "none", route_key |-> Unset, handler_function |-> Unset,
     request_method |-> Unset, doctype |-> Unset,
     request_data |-> NoPayload, data |-> NoPayload, caller_data |-> NoPayload,
     batch |-> << >>, prior |-> NoPrior,
     caller_op |-> Unset, doc |-> NoDoc, bins |-> << >>, items |-> << >>,
     company_name |-> Unset, branch_id |-> Unset, document_name |-> Unset,
     headers |-> << >>, server_url |-> NoneV, route_path |-> << >>,
     url |-> NoneV, response |-> NoneBody, ret |-> NoneV, exc |-> "none"]

\* The keys documents are looked up by: a notice_number, a custom_slade_id.
Keys == {"K-1", "K-2"}

\* The running bulk operation or list handler.  input: its argument; table:
\* the table it reads; rows:
\* the list it fetched; size: the length of the list it was handed; todo,
\* left: what its loop still has to go through;
\* log: the calls and reports it made, in order; docs: the documents held
\* per key; counter, commits, uncommitted: the bookkeeping of
\* item_search_on_success; errors: the exceptions caught.
NoSite ==
    [op |-> "none", at |-> "idle", response |-> "none",
     input |-> << >>, table |-> << >>, rows |-> << >>, todo |-> << >>,
     size |-> 0, left |-> 0,
     log |-> << >>, docs |-> [k \in Keys |-> 0],
     counter |-> 0, commits |-> 0, uncommitted |-> 0, errors |-> 0,
     exc |-> "none"]

Init ==
    /\ pc = [p \in Procs |-> "idle"]
    /\ loc = [p \in Procs |-> IdleLoc]
    /\ builder = InitBuilder
    /\ writer = 0
    /\ wrote = [p \in Procs |-> FALSE]
    /\ calls = [p \in Procs |-> << >>]
    /\ handled = [p \in Procs |-> << >>]
    /\ enqueued = [p \in Procs |-> << >>]
    /\ site = NoSite

------------------------------------------------------------------------------
(* process_request *)

\* Entry to the configuration check: bind the arguments, parse, resolve
\* company, branch and document, resolve headers, server url and route path,
\* strip the bookkeeping keys of a GET, then enter the loop or return the
\* failure message.  hp and rp say whether the credentials and the route
\* resolve.  Entered is where the call stands after that, and its locals.
Entered(from, c, request_data, hp, su, rp) ==
    LET base == [from EXCEPT !.op = "process_request",
                             !.route_key = c.route_key,
                             !.handler_function = c.handler_function,
                             !.request_method = c.request_method,
                             !.doctype = c.doctype,
                             !.request_data = request_data,
                             !.data = request_data,
                             !.caller_data = request_data]
    IN  IF BindRaises(c)
        THEN [pc |-> "raised", loc |-> [base EXCEPT !.exc = "TypeError"]]
        ELSE IF IsText(request_data) /\ JsonRaises(request_data)
        THEN [pc |-> "raised", loc |-> [base EXCEPT !.exc = "JSONDecodeError"]]
        ELSE IF RaisesOnGet(ParsedData(request_data))
        THEN [pc |-> "raised",
              loc |-> [base EXCEPT !.data = ParsedData(request_data),
                                   !.exc = "AttributeError"]]
        ELSE LET data == ParsedData(request_data)
                 company_name == CompanyNameOf(data)
                 branch_id == BranchIdOf(data)
                 headers == HeadersOf(company_name, branch_id, hp)
                 route_path == process_dynamic_url(
                                   RoutePathOf(c.route_key, rp), request_data)
                 stripped == StripBookkeeping(c.request_method, data)
                 resolved == [base EXCEPT
                                !.company_name = company_name,
                                !.branch_id = branch_id,
                                !.document_name = DocumentNameOf(data),
                                !.headers = headers,
                                !.server_url = su,
                                !.route_path = route_path,
                                !.data = stripped,
                                !.caller_data = CallerDataAfter(request_data,
                                                                stripped)]
             IN  IF ConfigOk(headers, su, route_path)
                 THEN [pc |-> "loop",
                       loc |-> [resolved EXCEPT !.url = FirstUrl(su, route_path)]]
                 ELSE [pc |-> "done",
                       loc |-> [resolved EXCEPT !.ret = FailedMsg(c.route_key)]]

Dispatch(p, c, request_data, hp, su, rp) ==
    /\ UNCHANGED site
    /\ pc[p] = "idle"
    /\ wrote' = [wrote EXCEPT ![p] = FALSE]
    /\ UNCHANGED << builder, writer, calls, handled, enqueued >>
    /\ pc' = [pc EXCEPT ![p] = Entered(IdleLoc, c, request_data, hp, su, rp).pc]
    /\ loc' = [loc EXCEPT ![p] = Entered(IdleLoc, c, request_data, hp, su, rp).loc]

\* One worker at a time: a dispatch starts when no other operation runs.
Start(p) ==
    /\ \A q \in Procs : pc[q] = "idle"
    /\ \E c \in Callers, request_data \in RequestDatas, hp \in BOOLEAN,
          su \in ServerUrls, rp \in BOOLEAN :
          Dispatch(p, c, request_data, hp, su, rp)

\* update_imported_item_request(request_data)
StartUpdateImported(p) ==
    /\ \A q \in Procs : pc[q] = "idle"
    /\ \E request_data \in ConcPayloads \cup JsonTexts :
          Dispatch(p, update_imported_item_request, request_data,
                   TRUE, ConcServerUrl, TRUE)

\* submit_uom_list()
StartUomList(p) ==
    /\ \A q \in Procs : pc[q] = "idle"
    /\ \E request_data \in UomLists, hp \in BOOLEAN :
          Dispatch(p, submit_uom_list, request_data, hp, ConcServerUrl, TRUE)

\* fetch_etims_warehouse_list(request_data): its first dispatch.
BatchInputs ==
    {[kind |-> "dict", items |-> << FullMapping >>],
     JsonOf([kind |-> "dict", items |-> << FullMapping >>])}

StartBatch(p) ==
    /\ UNCHANGED site
    /\ \A q \in Procs : pc[q] = "idle"
    /\ wrote' = [wrote EXCEPT ![p] = FALSE]
    /\ UNCHANGED << builder, writer, calls, handled, enqueued >>
    /\ \E request_data \in BatchInputs :
          LET r == Entered([IdleLoc EXCEPT !.batch = Tail(fetch_etims_warehouse_list)],
                           Head(fetch_etims_warehouse_list), request_data,
                           TRUE, ConcServerUrl, TRUE)
          IN  /\ pc' = [pc EXCEPT ![p] = r.pc]
              /\ loc' = [loc EXCEPT ![p] = r.loc]

\* The first dispatch has returned: the second one, with the same request_data
\* object as the first left it.
NextTask(p) ==
    /\ UNCHANGED site
    /\ pc[p] = "done"
    /\ loc[p].batch # << >>
    /\ LET r == Entered([IdleLoc EXCEPT
                            !.batch = Tail(loc[p].batch),
                            !.prior = [company_name |-> loc[p].company_name,
                                       branch_id |-> loc[p].branch_id,
                                       document_name |-> loc[p].document_name]],
                        Head(loc[p].batch), loc[p].caller_data,
                        TRUE, ConcServerUrl, TRUE)
       IN  /\ pc' = [pc EXCEPT ![p] = r.pc]
           /\ loc' = [loc EXCEPT ![p] = r.loc]
    /\ wrote' = [wrote EXCEPT ![p] = FALSE]
    /\ calls' = [calls EXCEPT ![p] = << >>]
    /\ handled' = [handled EXCEPT ![p] = << >>]
    /\ UNCHANGED << builder, writer, enqueued >>

\* while url: true, and the assignments to endpoints_builder.
SetBuilder(p) ==
    /\ UNCHANGED site
    /\ pc[p] = "loop"
    /\ loc[p].op = "process_request"
    /\ LoopContinues(loc[p].url)
    /\ builder' = SetBuilderFields(builder, loc[p])
    /\ writer' = p
    /\ wrote' = [wrote EXCEPT ![p] = TRUE]
    /\ pc' = [pc EXCEPT ![p] = "call"]
    /\ UNCHANGED << loc, calls, handled, enqueued >>

\* endpoints_builder.make_remote_call(doctype, document_name) and the choice
\* of the next url.
RemoteCallWith(p, outcomes) ==
    /\ UNCHANGED site
    /\ pc[p] = "call"
    /\ Len(calls[p]) < MaxPages
    /\ \E outcome \in outcomes :
          /\ Truthy(CursorOf(outcome.body)) => Len(calls[p]) + 1 < MaxPages
          /\ calls' = [calls EXCEPT ![p] =
                         Append(@, CallRecord(builder, CallArgs(loc[p]).doctype,
                                              CallArgs(loc[p]).document_name,
                                              outcome, writer))]
          /\ handled' = [handled EXCEPT ![p] =
                           @ \o Invocations(builder, CallArgs(loc[p]).doctype,
                                            CallArgs(loc[p]).document_name, outcome,
                                            Len(calls[p]) + 1)]
          /\ loc' = [loc EXCEPT ![p].response = Returned(outcome),
                                ![p].url = UrlAfterResponse(loc[p].url,
                                                            Returned(outcome))]
    /\ pc' = [pc EXCEPT ![p] = "loop"]
    /\ UNCHANGED << builder, writer, wrote, enqueued >>

RemoteCall(p) == RemoteCallWith(p, Outcomes)

\* while url: false, return the completion message.
Finish(p) ==
    /\ UNCHANGED site
    /\ pc[p] = "loop"
    /\ loc[p].op = "process_request"
    /\ ~LoopContinues(loc[p].url)
    /\ pc' = [pc EXCEPT ![p] = "done"]
    /\ loc' = [loc EXCEPT ![p].ret = CompletedMsg(loc[p].route_key)]
    /\ UNCHANGED << builder, writer, wrote, calls, handled, enqueued >>

\* The operation has returned or raised; the worker is free again.
Return(p) ==
    /\ UNCHANGED site
    /\ pc[p] \in {"done", "raised"}
    /\ pc[p] = "done" => (loc[p].batch = << >> /\ loc[p].bins = << >>)
    /\ pc' = [pc EXCEPT ![p] = "idle"]
    /\ loc' = [loc EXCEPT ![p] = IdleLoc]
    /\ wrote' = [wrote EXCEPT ![p] = FALSE]
    /\ calls' = [calls EXCEPT ![p] = << >>]
    /\ handled' = [handled EXCEPT ![p] = << >>]
    /\ enqueued' = [enqueued EXCEPT ![p] = << >>]
    /\ UNCHANGED << builder, writer >>

------------------------------------------------------------------------------
(* send_insurance_details: a direct user of the shared builder *)

InsurancePayload == [kind |-> "isrcc", items |-> << >>]

customer_insurance_details_submission_on_success ==
    "customer_insurance_details_submission_on_success"

\* json.loads, build_headers, get_server_url, get_route_path and the
\* configuration check.
DirectDispatch(p, hp, su, rp) ==
    /\ UNCHANGED site
    /\ pc[p] = "idle"
    /\ wrote' = [wrote EXCEPT ![p] = FALSE]
    /\ UNCHANGED << builder, writer, calls, handled, enqueued >>
    /\ LET headers == HeadersOf("Acme", DefaultBranch, hp)
           route_path == RoutePathOf("BhfInsuranceSaveReq", rp)
           resolved == [IdleLoc EXCEPT
                          !.op = "send_insurance_details",
                          !.route_key = "BhfInsuranceSaveReq",
                          !.handler_function =
                              customer_insurance_details_submission_on_success,
                          !.doctype = "Customer",
                          !.company_name = "Acme",
                          !.document_name = "CUST-1",
                          !.data = InsurancePayload,
                          !.headers = headers,
                          !.server_url = su,
                          !.route_path = route_path]
       IN  IF ConfigOk(headers, su, route_path)
           THEN /\ pc' = [pc EXCEPT ![p] = "dset"]
                /\ loc' = [loc EXCEPT ![p] =
                             [resolved EXCEPT !.url = FirstUrl(su, route_path)]]
           ELSE /\ pc' = [pc EXCEPT ![p] = "done"]
                /\ loc' = [loc EXCEPT ![p] = resolved]

StartDirect(p) ==
    /\ \A q \in Procs : pc[q] = "idle"
    /\ \E hp \in BOOLEAN, su \in ServerUrls, rp \in BOOLEAN :
          DirectDispatch(p, hp, su, rp)

\* The five assignments of send_insurance_details: method and
\* request_description are not among them.
DirectSetFields(b, l) ==
    [b EXCEPT !.headers = l.headers,
              !.url = l.url,
              !.payload = l.data,
              !.success_callback = l.handler_function,
              !.error_callback = on_error]

DirectSet(p) ==
    /\ UNCHANGED site
    /\ pc[p] = "dset"
    /\ builder' = DirectSetFields(builder, loc[p])
    /\ writer' = p
    /\ wrote' = [wrote EXCEPT ![p] = TRUE]
    /\ pc' = [pc EXCEPT ![p] = "denq"]
    /\ UNCHANGED << loc, calls, handled, enqueued >>

\* frappe.enqueue(endpoints_builder.make_remote_call, doctype=...,
\* document_name=...): the job is the bound method, so it carries the builder
\* as it is when enqueued.
EnqueuedCall(b, doctype, document_name, by) ==
    [url |-> b.url, headers |-> b.headers, payload |-> b.payload,
     method |-> b.method, request_description |-> b.request_description,
     success_callback |-> b.success_callback, error_callback |-> b.error_callback,
     doctype |-> doctype, document_name |-> document_name, writer |-> by]

Enqueue(p) ==
    /\ UNCHANGED site
    /\ pc[p] = "denq"
    /\ enqueued' = [enqueued EXCEPT ![p] =
                      Append(@, EnqueuedCall(builder, loc[p].doctype,
                                             loc[p].document_name, writer))]
    /\ pc' = [pc EXCEPT ![p] = "done"]
    /\ UNCHANGED << loc, builder, writer, wrote, calls, handled >>

------------------------------------------------------------------------------
(* Specifications *)

\* One operation at a time on the builder: the workers of a site run one
\* request or job each, to its end.
Next ==
    \E p \in Procs :
        \/ Start(p)
        \/ StartUpdateImported(p)
        \/ StartUomList(p)
        \/ StartBatch(p)
        \/ NextTask(p)
        \/ StartDirect(p)
        \/ SetBuilder(p)
        \/ RemoteCall(p)
        \/ Finish(p)
        \/ DirectSet(p)
        \/ Enqueue(p)
        \/ Return(p)

Spec == Init /\ [][Next]_vars

\* Two operations interleaved on the one builder, as concurrent workers of
\* one process would run them.  The inputs are a sample of those of Spec.
ConcCallers == {perform_customer_search, fetch_item_details}

\* The server answers one or two pages: only a first page may carry a cursor.
ConcFirstOutcomes ==
    {[status |-> "ok", body |-> [kind |-> "dict", hasNext |-> FALSE, next |-> NoneV]],
     [status |-> "ok", body |-> [kind |-> "dict", hasNext |-> TRUE,
                                 next |-> << "https://slade.example/x?page=2" >>]]}

ConcLaterOutcomes ==
    {[status |-> "ok", body |-> [kind |-> "dict", hasNext |-> FALSE, next |-> NoneV]],
     [status |-> "http_error", body |-> [kind |-> "str", hasNext |-> FALSE, next |-> NoneV]]}

StartConc(p) ==
    \E c \in ConcCallers, request_data \in ConcPayloads :
        Dispatch(p, c, request_data, TRUE, ConcServerUrl, TRUE)

StartDirectConc(p) == DirectDispatch(p, TRUE, ConcServerUrl, TRUE)

RemoteCallConc(p) ==
    RemoteCallWith(p, IF calls[p] = << >> THEN ConcFirstOutcomes ELSE ConcLaterOutcomes)

NextConc ==
    \E p \in Procs :
        \/ StartConc(p)
        \/ StartDirectConc(p)
        \/ SetBuilder(p)
        \/ RemoteCallConc(p)
        \/ Finish(p)
        \/ DirectSet(p)
        \/ Enqueue(p)
        \/ Return(p)

SpecConc == Init /\ [][NextConc]_vars

\* The server answers of the narrowed specifications.
LiveOutcomes ==
    {[status |-> "ok", body |-> [kind |-> "dict", hasNext |-> FALSE, next |-> NoneV]],
     [status |-> "http_error", body |-> [kind |-> "str", hasNext |-> FALSE, next |-> NoneV]]}
    \cup {[status |-> "ok", body |-> [kind |-> "dict", hasNext |-> TRUE, next |-> n]] :
            n \in NextUrls}

------------------------------------------------------------------------------
(* The save and submit operations *)

SaveOps ==
    {"perform_item_registration", "save_uom_category_details", "save_uom_details",
     "save_warehouse_details", "submit_pricelist", "submit_item_price",
     "save_operation_type"}

SladeIds == {NULL, "", "SL-1"}

\* The document an operation reads with frappe.get_doc: its name, the name
\* it is sent under (title), its Slade id, and for an Item
\* custom_sent_to_slade, for a Warehouse is_group.
DocsOf(op) ==
    [name : {"DOC-1"},
     title : IF op = "perform_item_registration" THEN {"DOC-1", "Widget"}
             ELSE {"Widget"},
     slade_id : SladeIds,
     sent_to_slade : IF op = "perform_item_registration" THEN BOOLEAN ELSE {FALSE},
     is_group : IF op = "save_warehouse_details" THEN BOOLEAN ELSE {FALSE}]

UOM_CATEGORY_DOCTYPE_NAME == "UOM_CATEGORY_DOCTYPE_NAME"
OPERATION_TYPE_DOCTYPE_NAME == "OPERATION_TYPE_DOCTYPE_NAME"

\* The test that chooses PATCH with id over POST: `if slade_id`, and for an
\* Item `if sent_to_slade and custom_slade_id`.
Updates(op, doc) ==
    IF op = "perform_item_registration"
    THEN doc.sent_to_slade /\ TruthyVal(doc.slade_id)
    ELSE TruthyVal(doc.slade_id)

RouteKeyOf(op, doc) ==
    CASE op = "perform_item_registration" -> "ItemsSearchReq"
      [] op = "save_uom_category_details" -> "UOMCategoriesSearchReq"
      [] op = "save_uom_details" -> "UOMListSearchReq"
      [] op = "save_warehouse_details" ->
            IF doc.is_group THEN "WarehousesSearchReq" ELSE "LocationsSearchReq"
      [] op = "submit_pricelist" -> "PriceListsSearchReq"
      [] op = "submit_item_price" -> "ItemPricesSearchReq"
      [] op = "save_operation_type" -> "OperationTypesReq"

HandlerOf(op, doc) ==
    CASE op = "perform_item_registration" -> "item_registration_on_success"
      [] op = "save_uom_category_details" -> "uom_category_search_on_success"
      [] op = "save_uom_details" -> "uom_search_on_success"
      [] op = "save_warehouse_details" -> "warehouse_update_on_success"
      [] op = "submit_pricelist" -> "pricelist_update_on_success"
      [] op = "submit_item_price" -> "item_price_update_on_success"
      [] op = "save_operation_type" ->
            IF Updates(op, doc) THEN "operation_types_search_on_success"
            ELSE "operation_type_create_on_success"

DoctypeOf(op) ==
    CASE op = "perform_item_registration" -> "Item"
      [] op = "save_uom_category_details" -> UOM_CATEGORY_DOCTYPE_NAME
      [] op = "save_uom_details" -> "UOM"
      [] op = "save_warehouse_details" -> "Warehouse"
      [] op = "submit_pricelist" -> "Price List"
      [] op = "submit_item_price" -> "Item Price"
      [] op = "save_operation_type" -> OPERATION_TYPE_DOCTYPE_NAME

\* The arguments of the operation's call of process_request.
SaveCaller(op, doc) ==
    [route_key |-> RouteKeyOf(op, doc), handler_function |-> HandlerOf(op, doc),
     request_method |-> IF Updates(op, doc) THEN "PATCH" ELSE "POST",
     doctype |-> DoctypeOf(op)]

\* request_data: document_name is the document's name, id is set on the
\* PATCH branch only; an Item also sends company_name, the user's default.
SavePayload(op, doc) ==
    [kind |-> "dict",
     items |-> << [document_name |-> doc.name,
                   company_name |-> IF op = "perform_item_registration"
                                    THEN DefaultCompany ELSE ABSENT,
                   id |-> IF Updates(op, doc) THEN doc.slade_id ELSE ABSENT,
                   name |-> IF op = "save_operation_type" THEN ABSENT
                            ELSE doc.title] >>]

StartSave(p) ==
    /\ UNCHANGED site
    /\ \A q \in Procs : pc[q] = "idle"
    /\ wrote' = [wrote EXCEPT ![p] = FALSE]
    /\ UNCHANGED << builder, writer, calls, handled, enqueued >>
    /\ \E op \in SaveOps : \E doc \in DocsOf(op) :
          LET r == Entered([IdleLoc EXCEPT !.caller_op = op, !.doc = doc],
                           SaveCaller(op, doc), SavePayload(op, doc),
                           TRUE, ConcServerUrl, TRUE)
          IN  /\ pc' = [pc EXCEPT ![p] = r.pc]
              /\ loc' = [loc EXCEPT ![p] = r.loc]

\* submit_inventory(name): one POST per Bin of the item.
submit_inventory ==
    [route_key |-> "StockMasterSaveReq",
     handler_function |-> "submit_inventory_on_success",
     request_method |-> "POST", doctype |-> "Bin"]

BinLists == {<< >>, << "BIN-1" >>, << "BIN-1", "BIN-2" >>}

InventoryPayload(bin) ==
    [kind |-> "dict",
     items |-> << [document_name |-> bin, company_name |-> ABSENT,
                   id |-> ABSENT, name |-> ABSENT] >>]

InventoryLoc == [IdleLoc EXCEPT !.op = "submit_inventory",
                                !.caller_op = "submit_inventory"]

\* frappe.throw for an empty name, msgprint when the item has no Bin, else
\* the dispatch for the first Bin.
StartInventory(p) ==
    /\ UNCHANGED site
    /\ \A q \in Procs : pc[q] = "idle"
    /\ wrote' = [wrote EXCEPT ![p] = FALSE]
    /\ UNCHANGED << builder, writer, calls, handled, enqueued >>
    /\ \E name \in {"", "ITEM-1"}, stock_levels \in BinLists :
          IF name = ""
          THEN /\ pc' = [pc EXCEPT ![p] = "raised"]
               /\ loc' = [loc EXCEPT ![p] =
                            [InventoryLoc EXCEPT !.exc = "ValidationError"]]
          ELSE IF stock_levels = << >>
          THEN /\ pc' = [pc EXCEPT ![p] = "done"]
               /\ loc' = [loc EXCEPT ![p] = InventoryLoc]
          ELSE LET r == Entered([InventoryLoc EXCEPT !.bins = Tail(stock_levels)],
                                submit_inventory,
                                InventoryPayload(Head(stock_levels)),
                                TRUE, ConcServerUrl, TRUE)
               IN  /\ pc' = [pc EXCEPT ![p] = r.pc]
                   /\ loc' = [loc EXCEPT ![p] = r.loc]

\* The dispatch for a Bin has returned: the dispatch for the next Bin.
NextBin(p) ==
    /\ UNCHANGED site
    /\ pc[p] = "done"
    /\ loc[p].bins # << >>
    /\ LET r == Entered([InventoryLoc EXCEPT !.bins = Tail(loc[p].bins)],
                        submit_inventory, InventoryPayload(Head(loc[p].bins)),
                        TRUE, ConcServerUrl, TRUE)
       IN  /\ pc' = [pc EXCEPT ![p] = r.pc]
           /\ loc' = [loc EXCEPT ![p] = r.loc]
    /\ wrote' = [wrote EXCEPT ![p] = FALSE]
    /\ calls' = [calls EXCEPT ![p] = << >>]
    /\ handled' = [handled EXCEPT ![p] = << >>]
    /\ UNCHANGED << builder, writer, enqueued >>

\* submit_item_composition(request_data): one enqueued submission per
\* component of the BOM.  A component is known by what the Item table holds
\* for its item_code: a registered Item, an unregistered Item, or no Item.
ComponentKinds == {"registered", "unregistered", "no_item"}

CompositionItems == UNION {[1 .. n -> ComponentKinds] : n \in 0 .. 2}

CompositionPayload == [kind |-> "composition", items |-> << >>]

item_composition_submission_on_success ==
    "item_composition_submission_on_success"

\* json.loads, the configuration check and the check of the manufactured
\* item; with no configuration the function falls through and returns.
StartComposition(p) ==
    /\ UNCHANGED site
    /\ \A q \in Procs : pc[q] = "idle"
    /\ wrote' = [wrote EXCEPT ![p] = FALSE]
    /\ UNCHANGED << builder, writer, calls, handled, enqueued >>
    /\ \E hp \in BOOLEAN, rp \in BOOLEAN, custom_item_registered \in BOOLEAN,
          items \in CompositionItems :
          LET headers == HeadersOf("Acme", DefaultBranch, hp)
              route_path == RoutePathOf("SaveItemComposition", rp)
              resolved == [IdleLoc EXCEPT
                             !.op = "submit_item_composition",
                             !.caller_op = "submit_item_composition",
                             !.route_key = "SaveItemComposition",
                             !.handler_function =
                                 item_composition_submission_on_success,
                             !.doctype = "BOM",
                             !.company_name = "Acme",
                             !.document_name = "BOM-1",
                             !.data = CompositionPayload,
                             !.headers = headers,
                             !.server_url = ConcServerUrl,
                             !.route_path = route_path]
          IN  IF ~ConfigOk(headers, ConcServerUrl, route_path)
              THEN /\ pc' = [pc EXCEPT ![p] = "done"]
                   /\ loc' = [loc EXCEPT ![p] = resolved]
              ELSE IF ~custom_item_registered
              THEN /\ pc' = [pc EXCEPT ![p] = "raised"]
                   /\ loc' = [loc EXCEPT ![p] =
                                [resolved EXCEPT !.exc = "ValidationError"]]
              ELSE /\ pc' = [pc EXCEPT ![p] = "comp"]
                   /\ loc' = [loc EXCEPT ![p] =
                                [resolved EXCEPT
                                   !.url = FirstUrl(ConcServerUrl, route_path),
                                   !.items = items]]

\* One iteration of "for item in data['items']": a component with no Item of
\* its item_code is passed over, a registered one has the builder set and
\* make_remote_call enqueued, an unregistered one makes frappe.throw raise.
CompositionStep(p) ==
    /\ UNCHANGED site
    /\ pc[p] = "comp"
    /\ IF loc[p].items = << >>
       THEN /\ pc' = [pc EXCEPT ![p] = "done"]
            /\ UNCHANGED << loc, builder, writer, wrote, enqueued >>
       ELSE IF Head(loc[p].items) = "no_item"
       THEN /\ loc' = [loc EXCEPT ![p].items = Tail(@)]
            /\ UNCHANGED << pc, builder, writer, wrote, enqueued >>
       ELSE IF Head(loc[p].items) = "registered"
       THEN /\ builder' = DirectSetFields(builder, loc[p])
            /\ writer' = p
            /\ wrote' = [wrote EXCEPT ![p] = TRUE]
            /\ enqueued' = [enqueued EXCEPT ![p] =
                              Append(@, EnqueuedCall(builder', loc[p].doctype,
                                                     loc[p].document_name, p))]
            /\ loc' = [loc EXCEPT ![p].items = Tail(@)]
            /\ UNCHANGED pc
       ELSE /\ pc' = [pc EXCEPT ![p] = "raised"]
            /\ loc' = [loc EXCEPT ![p].exc = "ValidationError"]
            /\ UNCHANGED << builder, writer, wrote, enqueued >>
    /\ UNCHANGED << calls, handled >>

RemoteCallSave(p) == RemoteCallWith(p, LiveOutcomes)

NextSave ==
    \E p \in Procs :
        \/ StartSave(p)
        \/ StartInventory(p)
        \/ NextBin(p)
        \/ StartComposition(p)
        \/ CompositionStep(p)
        \/ SetBuilder(p)
        \/ RemoteCallSave(p)
        \/ Finish(p)
        \/ Return(p)

SpecSave == Init /\ [][NextSave]_vars

\* A dispatch with a server that may answer with a non-empty next for ever.
\* calls and handled record the first MaxPages pages; the pages after them are
\* fetched and followed all the same.  Each step of the running code is taken
\* once it can be (the code runs on, and every remote call returns); whether
\* a new operation starts is up to the callers.
StartLive(p) ==
    /\ \A q \in Procs : pc[q] = "idle"
    /\ \E c \in Callers, request_data \in ConcPayloads, hp \in BOOLEAN :
          Dispatch(p, c, request_data, hp, ConcServerUrl, TRUE)

RemoteCallLive(p) ==
    /\ UNCHANGED site
    /\ pc[p] = "call"
    /\ \E outcome \in LiveOutcomes :
          /\ IF Len(calls[p]) < MaxPages
             THEN /\ calls' = [calls EXCEPT ![p] =
                                 Append(@, CallRecord(builder, CallArgs(loc[p]).doctype,
                                                      CallArgs(loc[p]).document_name,
                                                      outcome, writer))]
                  /\ handled' = [handled EXCEPT ![p] =
                                   @ \o Invocations(builder, CallArgs(loc[p]).doctype,
                                                    CallArgs(loc[p]).document_name,
                                                    outcome, Len(calls[p]) + 1)]
             ELSE UNCHANGED << calls, handled >>
          /\ loc' = [loc EXCEPT ![p].response = Returned(outcome),
                                ![p].url = UrlAfterResponse(loc[p].url,
                                                            Returned(outcome))]
    /\ pc' = [pc EXCEPT ![p] = "loop"]
    /\ UNCHANGED << builder, writer, wrote, enqueued >>

NextLive ==
    \E p \in Procs :
        \/ StartLive(p)
        \/ SetBuilder(p)
        \/ RemoteCallLive(p)
        \/ Finish(p)
        \/ Return(p)

SpecLive ==
    /\ Init
    /\ [][NextLive]_vars
    /\ \A p \in Procs :
          /\ WF_vars(SetBuilder(p))
          /\ WF_vars(RemoteCallLive(p))
          /\ WF_vars(Finish(p))

------------------------------------------------------------------------------
(* The bulk operations and the list handlers *)

dispatcher == << pc, loc, builder, writer, wrote, calls, handled, enqueued >>

Event(event, name) == [event |-> event, name |-> name]

\* The operation has returned or raised.
SiteReturn ==
    /\ site.at \in {"done", "raised"}
    /\ site' = NoSite
    /\ UNCHANGED dispatcher

\* The Sales Invoice table: name, docstatus, custom_successfully_submitted.
SalesInvoices ==
    << [name |-> "SINV-1", docstatus |-> 1, custom_successfully_submitted |-> 0],
       [name |-> "SINV-2", docstatus |-> 1, custom_successfully_submitted |-> 1],
       [name |-> "SINV-3", docstatus |-> 0, custom_successfully_submitted |-> 0],
       [name |-> "SINV-4", docstatus |-> 1, custom_successfully_submitted |-> 0] >>

RECURSIVE NamesOf(_)
NamesOf(rows) ==
    IF rows = << >> THEN << >> ELSE << Head(rows).name >> \o NamesOf(Tail(rows))

\* frappe.db.get_all("Sales Invoice", {"docstatus": 1,
\* "custom_successfully_submitted": 0}, ["name"])
IsUnsentInvoice(row) ==
    row.docstatus = 1 /\ row.custom_successfully_submitted = 0

all_sales_invoices == NamesOf(SelectSeq(SalesInvoices, IsUnsentInvoice))

\* docs_list: names of the table and one of no Sales Invoice, any of them
\* possibly twice.
InvoiceLists ==
    UNION {[1 .. n -> {"SINV-1", "SINV-2", "SINV-3", "SINV-4", "SINV-9"}] :
             n \in 0 .. 2}

\* The inner loop of bulk_submit_sales_invoices for one record: on_submit for
\* every fetched invoice of that name.
RECURSIVE SubmitsFor(_, _)
SubmitsFor(record, invoices) ==
    IF invoices = << >> THEN << >>
    ELSE (IF record = Head(invoices)
          THEN << Event("on_submit", Head(invoices)) >> ELSE << >>)
         \o SubmitsFor(record, Tail(invoices))

\* json.loads(docs_list) and the one fetch of the unsent invoices.
StartBulkSubmit ==
    /\ site.at = "idle"
    /\ \E docs_list \in InvoiceLists :
          site' = [NoSite EXCEPT !.op = "bulk_submit_sales_invoices",
                                 !.at = "loop",
                                 !.input = docs_list,
                                 !.todo = docs_list,
                                 !.rows = all_sales_invoices]
    /\ UNCHANGED dispatcher

\* One iteration of "for record in data".
BulkSubmitStep ==
    /\ site.op = "bulk_submit_sales_invoices"
    /\ site.at = "loop"
    /\ IF site.todo = << >>
       THEN site' = [site EXCEPT !.at = "done"]
       ELSE site' = [site EXCEPT
                       !.log = @ \o SubmitsFor(Head(site.todo), site.rows),
                       !.todo = Tail(@)]
    /\ UNCHANGED dispatcher

\* The Item table: name and custom_item_registered ("0", "1", or NULL for a
\* flag that was never set).
Items ==
    << [name |-> "ITEM-1", custom_item_registered |-> "1"],
       [name |-> "ITEM-2", custom_item_registered |-> "0"],
       [name |-> "ITEM-3", custom_item_registered |-> NULL] >>

\* frappe.db.get_value("Item", record, "custom_item_registered"): None when
\* there is no Item of that name.
RegisteredFlagOf(record) ==
    IF \E i \in 1 .. Len(Items) : Items[i].name = record
    THEN Items[CHOOSE i \in 1 .. Len(Items) : Items[i].name = record]
             .custom_item_registered
    ELSE NULL

\* "if is_registered == 0"
RegistersItem(is_registered) == is_registered = "0"

ItemLists ==
    UNION {[1 .. n -> {"ITEM-1", "ITEM-2", "ITEM-3", "ITEM-9"}] : n \in 0 .. 2}

StartBulkRegister ==
    /\ site.at = "idle"
    /\ \E docs_list \in ItemLists :
          site' = [NoSite EXCEPT !.op = "bulk_register_item",
                                 !.at = "loop",
                                 !.input = docs_list,
                                 !.todo = docs_list]
    /\ UNCHANGED dispatcher

\* One iteration of "for record in data": the call of
\* perform_item_registration, or the report that the item is registered.
BulkRegisterStep ==
    /\ site.op = "bulk_register_item"
    /\ site.at = "loop"
    /\ IF site.todo = << >>
       THEN site' = [site EXCEPT !.at = "done"]
       ELSE LET record == Head(site.todo)
            IN  site' = [site EXCEPT
                           !.log = Append(@,
                               IF RegistersItem(RegisteredFlagOf(record))
                               THEN Event("perform_item_registration", record)
                               ELSE Event("already_registered", record)),
                           !.todo = Tail(@)]
    /\ UNCHANGED dispatcher

\* item_search_on_success(response)
batch_size == 20

\* The lengths of response["results"]: none, one, a full batch, a full batch
\* and one, and two batches and more.
ResultSizes == {0, 1, batch_size, batch_size + 1, MaxResults}

\* response.get("results", []): a mapping has it, a list has no get.
StartItemSearch ==
    /\ site.at = "idle"
    /\ \E kind \in {"dict", "list"}, n \in ResultSizes,
          held \in [Keys -> {0, 1}] :
          site' = IF kind = "dict"
                  THEN [NoSite EXCEPT !.op = "item_search_on_success",
                                      !.at = "loop", !.response = kind,
                                      !.size = n, !.left = n, !.docs = held]
                  ELSE [NoSite EXCEPT !.op = "item_search_on_success",
                                      !.at = "raised", !.response = kind,
                                      !.docs = held, !.exc = "AttributeError"]
    /\ UNCHANGED dispatcher

\* "if counter % batch_size == 0"
CommitDue(counter) == counter % batch_size = 0

\* The try block ran to its end for an item with this custom_slade_id: the
\* Item found by it is updated, or a new one inserted; the counter and the
\* commit of a full batch.
AfterSuccess(s, slade_id) ==
    LET counter == s.counter + 1
    IN  [s EXCEPT !.docs = IF s.docs[slade_id] > 0 THEN @
                           ELSE [@ EXCEPT ![slade_id] = 1],
                  !.counter = counter,
                  !.commits = IF CommitDue(counter) THEN @ + 1 ELSE @,
                  !.uncommitted = IF CommitDue(counter) THEN 0 ELSE @ + 1,
                  !.left = @ - 1]

\* The try block raised before the save: frappe.log_error, next item.
AfterFailure(s) == [s EXCEPT !.errors = @ + 1, !.left = @ - 1]

AfterLoop_NoCommit(s) == [s EXCEPT !.at = "done"]

\* "if counter % batch_size != 0: frappe.db.commit()"
AfterLoop(s) ==
    IF ~CommitDue(s.counter)
    THEN [s EXCEPT !.at = "done", !.commits = @ + 1, !.uncommitted = 0]
    ELSE [s EXCEPT !.at = "done"]

\* One iteration of "for item_data in items", or the end of the loop.
ItemSearchStep ==
    /\ site.op = "item_search_on_success"
    /\ site.at = "loop"
    /\ IF site.left = 0
       THEN site' = AfterLoop(site)
       ELSE \E slade_id \in Keys, raises \in BOOLEAN :
               site' = IF raises THEN AfterFailure(site)
                       ELSE AfterSuccess(site, slade_id)
    /\ UNCHANGED dispatcher

\* notices_search_on_success(response).  The shapes of a response: a list
\* of notices, a mapping whose "results" is such a list, a mapping without
\* "results", a string, None.
ResponseShapes == {"list", "dict", "dict_no_results", "str", "none"}

NoticeLists == UNION {[1 .. n -> Keys] : n \in 0 .. 2}

\* "response if isinstance(response, list) else response.get('results')" and
\* the test "isinstance(notices, list)".  The handler is applied to one
\* response after another; the notices created stay.
StartNotices ==
    /\ \/ site.at = "idle"
       \/ site.op = "notices_search_on_success" /\ site.at \in {"done", "raised"}
    /\ \E shape \in ResponseShapes, notices \in NoticeLists :
          LET entered == [NoSite EXCEPT !.op = "notices_search_on_success",
                                        !.response = shape,
                                        !.docs = site.docs]
          IN  site' =
                CASE shape \in {"list", "dict"} ->
                        [entered EXCEPT !.at = "loop", !.input = notices,
                                        !.todo = notices]
                  [] shape = "dict_no_results" ->
                        [entered EXCEPT
                           !.at = "done",
                           !.log = << Event("log_error",
                                            "Invalid Response Format") >>]
                  [] OTHER ->
                        [entered EXCEPT !.at = "raised",
                                        !.exc = "AttributeError"]
    /\ UNCHANGED dispatcher

Exists_Never(docs, notice_number) == FALSE

\* frappe.db.exists(NOTICES_DOCTYPE_NAME, {"notice_number": ...})
Exists(docs, notice_number) == docs[notice_number] > 0

\* create_notice_if_new for the next notice of the list: nothing for a
\* notice_number that is held; else the new document is saved, unless
\* building it raises (a registration_date that is no ISO date).
NoticeStep ==
    /\ site.op = "notices_search_on_success"
    /\ site.at = "loop"
    /\ IF site.todo = << >>
       THEN site' = [site EXCEPT !.at = "done"]
       ELSE LET notice_number == Head(site.todo)
            IN  IF Exists(site.docs, notice_number)
                THEN site' = [site EXCEPT !.todo = Tail(@)]
                ELSE \E raises \in BOOLEAN :
                        site' = IF raises
                                THEN [site EXCEPT !.at = "raised",
                                                  !.exc = "ValueError"]
                                ELSE [site EXCEPT
                                        !.docs[notice_number] = @ + 1,
                                        !.log = Append(@, Event("create",
                                                                notice_number)),
                                        !.todo = Tail(@)]
    /\ UNCHANGED dispatcher

\* send_stock_information().  The Stock Ledger Entry table: up to three
\* entries, each with its docstatus and custom_submitted_successfully.
EntryNames == << "SLE-1", "SLE-2", "SLE-3" >>

StockLedgerTables ==
    UNION {{[i \in 1 .. n |->
               [name |-> EntryNames[i], docstatus |-> f[i][1],
                custom_submitted_successfully |-> f[i][2]]] :
              f \in [1 .. n -> {0, 1} \X {0, 1}]} : n \in 0 .. Len(EntryNames)}

\* frappe.get_all("Stock Ledger Entry", {"docstatus": 1,
\* "custom_submitted_successfully": 0}, ["name"])
IsUnsentEntry(row) ==
    row.docstatus = 1 /\ row.custom_submitted_successfully = 0

all_stock_ledger_entries(table) == NamesOf(SelectSeq(table, IsUnsentEntry))

\* What a call of on_update ends in.
OnUpdateOutcomes == {"returns", "TypeError", "ValidationError"}

StartStock ==
    /\ site.at = "idle"
    /\ \E table \in StockLedgerTables :
          site' = [NoSite EXCEPT !.op = "send_stock_information",
                                 !.at = "loop",
                                 !.table = table,
                                 !.rows = all_stock_ledger_entries(table),
                                 !.todo = all_stock_ledger_entries(table)]
    /\ UNCHANGED dispatcher

OnUpdateRaised_Propagates(s, exc) == [s EXCEPT !.at = "raised", !.exc = exc]

\* "except TypeError: continue"; any other exception leaves the function.
OnUpdateRaised(s, exc) ==
    IF exc = "TypeError"
    THEN [s EXCEPT !.errors = @ + 1, !.todo = Tail(@)]
    ELSE [s EXCEPT !.at = "raised", !.exc = exc]

\* One iteration of "for entry in all_stock_ledger_entries".
StockStep ==
    /\ site.op = "send_stock_information"
    /\ site.at = "loop"
    /\ IF site.todo = << >>
       THEN site' = [site EXCEPT !.at = "done"]
       ELSE \E outcome \in OnUpdateOutcomes :
               LET called == [site EXCEPT
                                !.log = Append(@, Event("on_update",
                                                        Head(site.todo)))]
               IN  site' = IF outcome = "returns"
                           THEN [called EXCEPT !.todo = Tail(@)]
                           ELSE OnUpdateRaised(called, outcome)
    /\ UNCHANGED dispatcher

NextSite ==
    \/ StartBulkSubmit
    \/ BulkSubmitStep
    \/ StartBulkRegister
    \/ BulkRegisterStep
    \/ StartItemSearch
    \/ ItemSearchStep
    \/ StartNotices
    \/ NoticeStep
    \/ StartStock
    \/ StockStep
    \/ SiteReturn

SpecSite == Init /\ [][NextSite]_vars

-------------------------------------------------------------------------------
(* Properties *)

Dispatching(p) == loc[p].op = "process_request"

Pages(p) == 1 .. Len(calls[p])

InvocationsOf(p, i) == {j \in 1 .. Len(handled[p]) : handled[p][j].page = i}

\* C1: for every page of a dispatch for which a response was received (2xx or
\* not), exactly one handler invocation was made for that page: never two,
\* never none.
C1_ExactlyOneHandlerPerPage ==
    \A p \in Procs : \A i \in Pages(p) :
        calls[p][i].status \in {"ok", "http_error"}
            => /\ Cardinality(InvocationsOf(p, i)) = 1
               /\ \A j \in InvocationsOf(p, i) :
                     handled[p][j].kind =
                         (IF calls[p][i].status = "ok" THEN "success" ELSE "error")

\* A two-page dispatch: page 1 succeeded, page 2 was answered with an error.
C1_Witness ==
    \E p \in Procs :
        /\ Len(calls[p]) = 2
        /\ calls[p][1].status = "ok"
        /\ calls[p][2].status = "http_error"
        /\ Len(handled[p]) = 2

HasKey(payload, key) ==
    \E i \in 1 .. Len(payload.items) :
        IF key = "document_name"
        THEN payload.items[i].document_name # ABSENT
        ELSE payload.items[i].company_name # ABSENT

\* C2: the payload of every remote call of a GET dispatch holds neither the
\* key document_name nor the key company_name, whatever the input payload.
C2_GetPayloadWithoutBookkeeping ==
    \A p \in Procs : \A i \in Pages(p) :
        (Dispatching(p) /\ loc[p].request_method = "GET")
            => /\ ~HasKey(calls[p][i].payload, "document_name")
               /\ ~HasKey(calls[p][i].payload, "company_name")

ContainsToken(text, token) == \E i \in 1 .. Len(text) : text[i] = token

\* C3: a dispatch that resolved empty headers, an empty server url or an empty
\* route path makes no remote call, invokes no handler, does not write the
\* shared builder, does not raise, and returns the failure message, which
\* holds the route key.
C3_MissingConfigFailsQuietly ==
    \A p \in Procs :
        (/\ Dispatching(p)
         /\ pc[p] # "raised"
         /\ \/ ~Truthy(loc[p].headers)
            \/ ~Truthy(loc[p].server_url)
            \/ ~Truthy(loc[p].route_path))
            => /\ pc[p] = "done"
               /\ calls[p] = << >>
               /\ handled[p] = << >>
               /\ ~wrote[p]
               /\ loc[p].ret = << "Failed to process ", loc[p].route_key,
                                  ". Missing required configuration." >>
               /\ ContainsToken(loc[p].ret, loc[p].route_key)

\* Only the route path is missing, and the builder holds the fields of an
\* earlier operation.
C3_Witness ==
    \E p \in Procs :
        /\ Dispatching(p)
        /\ pc[p] = "done"
        /\ Truthy(loc[p].headers)
        /\ Truthy(loc[p].server_url)
        /\ ~Truthy(loc[p].route_path)
        /\ builder.url # NoneV
        /\ ~wrote[p]

\* C4: a page that ends in a non-2xx response or a transport failure is the
\* last page of its dispatch: the error handler has been invoked exactly once
\* in the dispatch, no later call exists and none is about to be made (the
\* loop has no url left), whatever the error body holds.
C4_ErrorEndsDispatch ==
    \A p \in Procs : \A i \in Pages(p) :
        calls[p][i].status # "ok"
            => /\ i = Len(calls[p])
               /\ Cardinality({j \in 1 .. Len(handled[p]) :
                                  handled[p][j].kind = "error"}) = 1
               /\ pc[p] \in {"loop", "done"}
               /\ loc[p].url = NoneV

\* The second page failed with a mapping body that carries a non-empty next.
C4_Witness ==
    \E p \in Procs :
        /\ pc[p] = "done"
        /\ Len(calls[p]) = 2
        /\ calls[p][2].status = "http_error"
        /\ Truthy(CursorOf(calls[p][2].body))
        /\ \E j \in 1 .. Len(handled[p]) : handled[p][j].kind = "error"

AllOk(p) == \A i \in Pages(p) : calls[p][i].status = "ok"

\* C5: a dispatch that has returned after N successful pages invoked the
\* success handler N times, the i-th time for page i with the body of page i;
\* pages 1..N-1 carried a non-empty next, page i+1 was requested at the next
\* of page i, and the loop ended at page N, the first page without one.
C5_SuccessPerPageInOrder ==
    \A p \in Procs :
        (pc[p] = "done" /\ calls[p] # << >> /\ AllOk(p))
            => /\ Len(handled[p]) = Len(calls[p])
               /\ \A i \in Pages(p) :
                     /\ handled[p][i].kind = "success"
                     /\ handled[p][i].page = i
                     /\ handled[p][i].body = calls[p][i].body
                     /\ i < Len(calls[p])
                           => /\ Truthy(CursorOf(calls[p][i].body))
                              /\ calls[p][i + 1].url = CursorOf(calls[p][i].body)
               /\ ~Truthy(CursorOf(calls[p][Len(calls[p])].body))

\* A dispatch of three successful pages, the bodies of pages 1 and 2 differing.
C5_Witness ==
    \E p \in Procs :
        /\ pc[p] = "done"
        /\ Len(calls[p]) = 3
        /\ AllOk(p)
        /\ calls[p][1].body # calls[p][2].body
        /\ Len(handled[p]) = 3

\* C6: a 2xx page whose body is a mapping without the key next, or with a
\* next that is None or empty, is the last page of its dispatch; a first
\* response of that shape makes the dispatch one of exactly one remote call.
C6_FalsyOrMissingNextStops ==
    \A p \in Procs : \A i \in Pages(p) :
        (/\ calls[p][i].status = "ok"
         /\ calls[p][i].body.kind = "dict"
         /\ ~Truthy(CursorOf(calls[p][i].body)))
            => /\ i = Len(calls[p])
               /\ pc[p] \in {"loop", "done"}
               /\ pc[p] = "loop" => ~Truthy(loc[p].url)

\* The first response is a mapping whose next is the empty string.
C6_Witness ==
    \E p \in Procs :
        /\ pc[p] = "done"
        /\ Len(calls[p]) = 1
        /\ calls[p][1].status = "ok"
        /\ calls[p][1].body = [kind |-> "dict", hasNext |-> TRUE, next |-> << >>]

\* C7: a 2xx page whose body is not a mapping (a bare list, a string, no
\* value) is the last page of its dispatch, also when the elements of the
\* list carry a next key.
C7_NonMappingStops ==
    \A p \in Procs : \A i \in Pages(p) :
        (calls[p][i].status = "ok" /\ calls[p][i].body.kind # "dict")
            => /\ i = Len(calls[p])
               /\ pc[p] \in {"loop", "done"}
               /\ loc[p].url = NoneV

\* The first response is a list whose elements carry a next key.
C7_Witness ==
    \E p \in Procs :
        /\ pc[p] = "done"
        /\ Len(calls[p]) = 1
        /\ calls[p][1].status = "ok"
        /\ calls[p][1].body.kind = "list"
        /\ calls[p][1].body.hasNext

\* The fields of a call are those of the invocation that makes it.
OwnFields(p, c) ==
    /\ c.headers = loc[p].headers
    /\ c.payload = loc[p].data
    /\ c.method = loc[p].request_method
    /\ c.request_description = loc[p].route_key
    /\ c.success_callback = loc[p].handler_function

\* C8: with two operations interleaved on the shared builder, a remote call
\* carries the fields of its own invocation exactly when that invocation was
\* the last to write the builder; a call made after another operation wrote
\* the builder is performed with what that operation wrote (C8_Witness).
C8_CallUsesLastWriter ==
    \A p \in Procs : \A i \in Pages(p) :
        calls[p][i].writer = p => OwnFields(p, calls[p][i])

\* A remote call of one invocation performed with the success callback and
\* the headers, payload or method that another operation wrote.
C8_Witness ==
    \E p \in Procs : \E i \in Pages(p) :
        /\ calls[p][i].writer # p
        /\ calls[p][i].success_callback # loc[p].handler_function
        /\ \/ calls[p][i].method # loc[p].request_method
           \/ calls[p][i].payload # loc[p].data

\* What the caller of a dispatch supplies as handlers: handler_function.
CallerSupplied(p) == {loc[p].handler_function}

C10_NoSuccessBeforeFinalPage ==
    \A p \in Procs :
        pc[p] = "call" => \A j \in 1 .. Len(handled[p]) : handled[p][j].kind # "success"

\* C10 as amended: the success handler is invoked for each page as soon as it
\* is fetched: whenever the next page is about to be requested, every page
\* fetched so far has had its one success invocation, in page order.
C10_SuccessInvokedPerPageAsFetched ==
    \A p \in Procs :
        (Dispatching(p) /\ pc[p] = "call")
            => /\ Len(handled[p]) = Len(calls[p])
               /\ \A i \in Pages(p) :
                     /\ handled[p][i].kind = "success"
                     /\ handled[p][i].page = i
                     /\ handled[p][i].body = calls[p][i].body

\* Two pages fetched and handled, the third about to be requested.
C10_Witness ==
    \E p \in Procs :
        /\ pc[p] = "call"
        /\ Len(calls[p]) = 2
        /\ Len(handled[p]) = 2

\* C11: in a dispatch run on its own, the first remote call targets the
\* server url followed by the rendered route path, every later call targets
\* exactly the next of the response before it, and every call of the dispatch
\* carries the method, the headers (resolved once, before the loop) and the
\* payload of the dispatch.
C11_FirstUrlThenCursorSameRequest ==
    \A p \in Procs : \A i \in Pages(p) :
        Dispatching(p)
            => /\ i = 1 => calls[p][i].url = loc[p].server_url \o loc[p].route_path
               /\ i > 1 => /\ calls[p][i - 1].status = "ok"
                           /\ calls[p][i - 1].body.kind = "dict"
                           /\ calls[p][i - 1].body.hasNext
                           /\ calls[p][i].url = calls[p][i - 1].body.next
               /\ calls[p][i].method = loc[p].request_method
               /\ calls[p][i].headers = loc[p].headers
               /\ calls[p][i].payload = loc[p].data
               /\ calls[p][i].method = calls[p][1].method
               /\ calls[p][i].headers = calls[p][1].headers
               /\ calls[p][i].payload = calls[p][1].payload

\* Three pages at three different urls, fetched after an operation of another
\* method left its fields in the builder.
C11_Witness ==
    \E p \in Procs :
        /\ Dispatching(p)
        /\ Len(calls[p]) = 3
        /\ calls[p][1].url # calls[p][2].url
        /\ calls[p][2].url # calls[p][3].url
        /\ calls[p][1].url = << "https://slade.example", "/api/", loc[p].route_key, "/" >>
        /\ calls[p][3].method = "POST"

\* The caller of a dispatch, found by its route key.
CallerOf(p) == CHOOSE c \in AllCallers : c.route_key = loc[p].route_key

\* C12: every remote call of a dispatch is made with the doctype its caller
\* passed and with the document_name of the input payload (that of the first
\* entry of a non-empty list, None when the key is missing), also in a GET
\* dispatch, whose payload has document_name stripped before the call.
C12_CallCarriesDoctypeAndDocument ==
    \A p \in Procs : \A i \in Pages(p) :
        Dispatching(p)
            => /\ calls[p][i].doctype = CallerOf(p).doctype
               /\ calls[p][i].document_name =
                      Get(loc[p].request_data.items[1].document_name)

\* A GET dispatch for document DOC-1: the call carries DOC-1 and the Item
\* doctype, its payload no longer holds the key document_name.
C12_Witness ==
    \E p \in Procs :
        /\ Dispatching(p)
        /\ loc[p].request_method = "GET"
        /\ Len(calls[p]) = 2
        /\ calls[p][2].doctype = "Item"
        /\ calls[p][2].document_name = "DOC-1"
        /\ ~HasKey(calls[p][2].payload, "document_name")

\* C13 as claimed: every remote call returning, a dispatch that entered its
\* loop eventually returns, whatever the server answers.
C13_AlwaysReturns ==
    \A p \in Procs : (Dispatching(p) /\ pc[p] = "call") ~> (pc[p] = "done")

\* C13 as amended: every remote call returning, a dispatch returns once a page
\* leaves it without a url to follow (a failed page, a body that is not a
\* mapping, a missing or empty next), and not before: as long as a page
\* carries a non-empty next, the next step of the dispatch is another call.
C13_ReturnsWhenCursorRunsOut ==
    /\ \A p \in Procs :
          (Dispatching(p) /\ pc[p] = "loop" /\ ~Truthy(loc[p].url))
              ~> (pc[p] = "done")
    /\ [][\A p \in Procs :
             (Dispatching(p) /\ pc[p] = "loop" /\ pc'[p] # "loop")
                 => IF Truthy(loc[p].url) THEN pc'[p] = "call" ELSE pc'[p] = "done"]_vars

\* A dispatch that returned after more pages than the MaxPages recorded: the
\* last recorded page still carried a non-empty next.
C13_Witness ==
    \E p \in Procs :
        /\ Dispatching(p)
        /\ pc[p] = "done"
        /\ Len(calls[p]) = MaxPages
        /\ Truthy(CursorOf(calls[p][MaxPages].body))
        /\ loc[p].ret = CompletedMsg(loc[p].route_key)

\* C14: the value a dispatch returns is the completion message of its route
\* key exactly when the headers, the server url and the route path it
\* resolved are all non-empty, and the failure message of its route key
\* otherwise, whatever its pages ended in and whichever handlers ran.
C14_ReturnValueFromConfigOnly ==
    \A p \in Procs :
        (Dispatching(p) /\ pc[p] = "done")
            => IF /\ Truthy(loc[p].headers)
                  /\ Truthy(loc[p].server_url)
                  /\ Truthy(loc[p].route_path)
               THEN loc[p].ret = << loc[p].route_key, " completed successfully." >>
               ELSE loc[p].ret = << "Failed to process ", loc[p].route_key,
                                    ". Missing required configuration." >>

\* A dispatch whose only page failed and went to the error handler returned
\* the completion message.
C14_Witness ==
    \E p \in Procs :
        /\ Dispatching(p)
        /\ pc[p] = "done"
        /\ Len(calls[p]) = 1
        /\ calls[p][1].status = "transport"
        /\ Len(handled[p]) = 1
        /\ handled[p][1].kind = "error"
        /\ loc[p].ret = << loc[p].route_key, " completed successfully." >>

\* The success handlers that take the document identifier after the response.
TakesDocument == {"customer_search_on_success", "imported_item_submission_on_success"}

\* C15: every success invocation of a dispatch is of the handler the dispatch
\* registered, in the shape of that handler's signature: a handler of
\* (response, document_name) gets the response and the document_name of the
\* input payload, never a missing one; a handler of (response) gets the
\* response alone.
C15_SuccessInvokedByArity ==
    \A p \in Procs : \A j \in 1 .. Len(handled[p]) :
        (/\ Dispatching(p)
         /\ handled[p][j].kind = "success"
         /\ loc[p].handler_function \in SuccessHandlers)
            => /\ handled[p][j].fn = loc[p].handler_function
               /\ IF handled[p][j].fn \in TakesDocument
                  THEN /\ handled[p][j].args = << "response", "document_name" >>
                       /\ handled[p][j].document_name # Unset
                       /\ handled[p][j].document_name =
                              Get(loc[p].request_data.items[1].document_name)
                  ELSE handled[p][j].args = << "response" >>

\* customer_search_on_success invoked for the second page of a dispatch with
\* the response and DOC-1.
C15_Witness ==
    \E p \in Procs :
        /\ Dispatching(p)
        /\ Len(handled[p]) = 2
        /\ handled[p][2].kind = "success"
        /\ handled[p][2].fn = "customer_search_on_success"
        /\ handled[p][2].args = << "response", "document_name" >>
        /\ handled[p][2].document_name = "DOC-1"

\* C16: a dispatch leaves the caller's request_data as it was passed, and
\* every later dispatch a caller issues with the same request_data resolves
\* the company, the branch and the document its previous dispatch resolved,
\* for request_data given as a JSON string and as a mapping.
C16_RequestDataUnchangedAcrossDispatches ==
    \A p \in Procs :
        (Dispatching(p) /\ pc[p] # "raised")
            => /\ loc[p].caller_data = loc[p].request_data
               /\ loc[p].prior # NoPrior
                     => /\ loc[p].company_name = loc[p].prior.company_name
                        /\ loc[p].branch_id = loc[p].prior.branch_id
                        /\ loc[p].document_name = loc[p].prior.document_name

\* C17: the call send_insurance_details hands to frappe.enqueue carries only
\* values its own operation set: url, headers, payload and the two callbacks
\* are its own, and neither method nor request_description is one an earlier
\* process_request wrote to the builder.
C17_EnqueuedCallUsesOwnValues ==
    \A p \in Procs : \A i \in 1 .. Len(enqueued[p]) :
        /\ enqueued[p][i].url = loc[p].url
        /\ enqueued[p][i].headers = loc[p].headers
        /\ enqueued[p][i].payload = loc[p].data
        /\ enqueued[p][i].success_callback = loc[p].handler_function
        /\ enqueued[p][i].error_callback = on_error
        /\ enqueued[p][i].method \notin {c.request_method : c \in AllCallers}
        /\ enqueued[p][i].request_description \notin {c.route_key : c \in AllCallers}

\* C18: a dispatch entered with a string that is not JSON raises the parse
\* exception at once: it has made no remote call, invoked no handler and not
\* written the shared builder.  (The call of update_imported_item_request
\* does not enter process_request at all, see C20.)
C18_InvalidJsonRaisesBeforeAnyEffect ==
    \A p \in Procs :
        (/\ Dispatching(p)
         /\ loc[p].request_data = InvalidJson
         /\ loc[p].route_key # "ImportItemUpdateReq")
            => /\ pc[p] = "raised"
               /\ loc[p].exc = "JSONDecodeError"
               /\ loc[p].ret = NoneV
               /\ calls[p] = << >>
               /\ handled[p] = << >>
               /\ enqueued[p] = << >>
               /\ ~wrote[p]

\* The parse exception of a POST dispatch, raised while the builder holds the
\* fields an earlier GET dispatch wrote.
C18_Witness ==
    \E p \in Procs :
        /\ pc[p] = "raised"
        /\ loc[p].exc = "JSONDecodeError"
        /\ loc[p].request_method = "POST"
        /\ builder.method = "GET"
        /\ ~wrote[p]

\* C19: a dispatch entered with a mapping or a list of mappings, the empty
\* list included, does not raise: company and document of a non-empty list
\* are those of its first entry, and the dispatch ends with one of the two
\* outcome messages.
C19_AcceptsEveryPayloadWithoutRaising ==
    \A p \in Procs :
        (/\ Dispatching(p)
         /\ loc[p].request_data.kind \in {"dict", "list"}
         /\ loc[p].route_key # "ImportItemUpdateReq")
            => /\ pc[p] # "raised"
               /\ loc[p].request_data.items # << >>
                     => /\ loc[p].company_name =
                              OrElse(Get(loc[p].request_data.items[1].company_name),
                                     DefaultCompany)
                        /\ loc[p].document_name =
                              Get(loc[p].request_data.items[1].document_name)
               /\ pc[p] = "done"
                     => loc[p].ret \in {CompletedMsg(loc[p].route_key),
                                        FailedMsg(loc[p].route_key)}

\* C20: update_imported_item_request, called with valid request_data, does
\* not raise, and every remote call of its dispatch goes to the route
\* ImportItemUpdateReq with method PUT, doctype Item and
\* imported_item_submission_on_success as success handler.
C20_UpdateImportedItemDispatchesPut ==
    \A p \in Procs :
        (/\ loc[p].route_key = "ImportItemUpdateReq"
         /\ loc[p].request_data # InvalidJson)
            => /\ pc[p] # "raised"
               /\ \A i \in Pages(p) :
                     /\ calls[p][i].request_description = "ImportItemUpdateReq"
                     /\ calls[p][i].method = "PUT"
                     /\ calls[p][i].doctype = "Item"
                     /\ calls[p][i].success_callback =
                            "imported_item_submission_on_success"

\* C21: every remote call of a save or submit operation is sent with PATCH
\* and carries the document's Slade id under the key id when the document
\* holds a Slade id, and is sent with POST without the key id when it holds
\* none; a document that holds a Slade id is never sent with POST.
C21_PatchWithIdIffSladeId ==
    \A p \in Procs : \A i \in Pages(p) :
        loc[p].caller_op \in SaveOps
            => IF TruthyVal(loc[p].doc.slade_id)
               THEN /\ calls[p][i].method = "PATCH"
                    /\ calls[p][i].payload.items[1].id = loc[p].doc.slade_id
               ELSE /\ calls[p][i].method = "POST"
                    /\ calls[p][i].payload.items[1].id = ABSENT

\* C22: the update a success handler of perform_item_registration or
\* submit_inventory makes goes to the document that originated the request:
\* the record of the request's doctype named by the request's document_name.
C22_HandlerUpdatesOriginatingDocument ==
    \A p \in Procs : \A j \in 1 .. Len(handled[p]) :
        (/\ loc[p].caller_op \in {"perform_item_registration", "submit_inventory"}
         /\ handled[p][j].kind = "success")
            => handled[p][j].target =
                   [doctype |-> loc[p].doctype, name |-> loc[p].document_name]

\* C23: submit_item_composition is all-or-nothing: when it raises because the
\* manufactured item or a component is not registered, it has enqueued no
\* composition submission for any component.
C23_CompositionAllOrNothing ==
    \A p \in Procs :
        (loc[p].caller_op = "submit_item_composition" /\ pc[p] = "raised")
            => enqueued[p] = << >>

\* The number of entries of a log that are the given event for the given name.
RECURSIVE CountOf(_, _, _)
CountOf(log, event, name) ==
    IF log = << >> THEN 0
    ELSE (IF Head(log) = Event(event, name) THEN 1 ELSE 0)
         + CountOf(Tail(log), event, name)

Listed(name, list) == \E i \in 1 .. Len(list) : list[i] = name

\* C24: bulk_submit_sales_invoices invokes on_submit at most once per Sales
\* Invoice, and only for an invoice that is named in docs_list, has docstatus 1
\* and has custom_successfully_submitted = 0; also when docs_list names an
\* invoice more than once.
C24_OnSubmitAtMostOncePerInvoice ==
    site.op = "bulk_submit_sales_invoices"
        => /\ \A i \in 1 .. Len(site.log) :
                /\ site.log[i].event = "on_submit"
                /\ Listed(site.log[i].name, site.input)
                /\ \E r \in 1 .. Len(SalesInvoices) :
                      /\ SalesInvoices[r].name = site.log[i].name
                      /\ SalesInvoices[r].docstatus = 1
                      /\ SalesInvoices[r].custom_successfully_submitted = 0
           /\ \A r \in 1 .. Len(SalesInvoices) :
                CountOf(site.log, "on_submit", SalesInvoices[r].name) <= 1

ItemExists(name) == \E i \in 1 .. Len(Items) : Items[i].name = name

\* C25: bulk_register_item calls perform_item_registration for exactly the
\* listed records whose Item is not yet registered (flag 0 or unset), never
\* for a registered one, and reports a record as already registered only if
\* its Item exists and is registered.
C25_RegistersExactlyUnregistered ==
    site.op = "bulk_register_item"
        => /\ \A i \in 1 .. Len(site.log) :
                /\ site.log[i].event = "perform_item_registration"
                      => /\ ItemExists(site.log[i].name)
                         /\ RegisteredFlagOf(site.log[i].name) # "1"
                /\ site.log[i].event = "already_registered"
                      => /\ ItemExists(site.log[i].name)
                         /\ RegisteredFlagOf(site.log[i].name) = "1"
           /\ site.at = "done"
                => \A i \in 1 .. Len(site.input) :
                      (/\ ItemExists(site.input[i])
                       /\ RegisteredFlagOf(site.input[i]) # "1")
                          => CountOf(site.log, "perform_item_registration",
                                     site.input[i]) >= 1

\* C26: item_search_on_success isolates per-item failures and commits all it
\* processed.  No item makes it raise: each item of the results is either
\* counted as processed or logged as failed, and the loop goes on; an item
\* whose custom_slade_id is held updates that Item, so no id gets a second
\* one; a commit follows every 20th success, and on return one more has
\* covered a last partial batch, so that no success is left uncommitted.
C26_IsolatesFailuresAndCommitsAll ==
    (site.op = "item_search_on_success" /\ site.response = "dict")
        => /\ site.at # "raised"
           /\ site.counter + site.errors + site.left = site.size
           /\ \A k \in Keys : site.docs[k] <= 1
           /\ site.at = "loop"
                => /\ site.uncommitted = site.counter % 20
                   /\ site.commits = site.counter \div 20
           /\ site.at = "done"
                => /\ site.left = 0
                   /\ site.uncommitted = 0
                   /\ site.commits = (site.counter + 19) \div 20

\* A response of more than two batches, with failures among its items, has
\* been gone through: two full batches and a last partial one are committed.
C26_Witness ==
    /\ site.op = "item_search_on_success"
    /\ site.at = "done"
    /\ site.errors > 0
    /\ site.counter > 20
    /\ site.counter % 20 # 0
    /\ site.commits = 2
    /\ \E k \in Keys : site.docs[k] = 1

\* C27: notices_search_on_success is idempotent: however often it is applied
\* to responses that are a list of notices or a mapping with a results list,
\* there is at most one notice document per notice_number; applied to a
\* response of any other shape it creates nothing and logs 'Invalid Response
\* Format'.
C27_NoticesIdempotentAndInvalidLogged ==
    site.op = "notices_search_on_success"
        => /\ \A k \in Keys : site.docs[k] <= 1
           /\ site.response \notin {"list", "dict"}
                => /\ site.at = "done"
                   /\ site.log = << Event("log_error", "Invalid Response Format") >>

\* C27, amended: at most one notice document per notice_number, however often
\* the handler is applied; a mapping whose results is no list creates nothing
\* and logs 'Invalid Response Format'; a response that is neither a list nor
\* a mapping raises AttributeError, with nothing created and nothing logged.
C27_NoticesIdempotent ==
    site.op = "notices_search_on_success"
        => /\ \A k \in Keys : site.docs[k] <= 1
           /\ site.response = "dict_no_results"
                => /\ site.at = "done"
                   /\ site.log = << Event("log_error", "Invalid Response Format") >>
           /\ site.response \in {"str", "none"}
                => /\ site.at = "raised"
                   /\ site.exc = "AttributeError"
                   /\ site.log = << >>

\* The handler has been applied again to a list naming a notice that is
\* held, twice: it has returned and has created nothing.
C27_Witness ==
    /\ site.op = "notices_search_on_success"
    /\ site.at = "done"
    /\ site.response = "list"
    /\ site.input = << "K-1", "K-1" >>
    /\ site.docs["K-1"] = 1
    /\ site.log = << >>

\* The calls of on_update the claim of C28 expects for a table: one for each
\* entry with docstatus 1 and custom_submitted_successfully = 0, in the order
\* of the table.
RECURSIVE ExpectedUpdates(_)
ExpectedUpdates(table) ==
    IF table = << >> THEN << >>
    ELSE (IF Head(table).docstatus = 1
             /\ Head(table).custom_submitted_successfully = 0
          THEN << Event("on_update", Head(table).name) >> ELSE << >>)
         \o ExpectedUpdates(Tail(table))

\* C28: send_stock_information invokes on_update once, in list order, for
\* every Stock Ledger Entry with docstatus 1 and custom_submitted_successfully
\* = 0 and for no other entry; a TypeError raised by on_update skips that
\* entry only: the function does not raise it and goes on with the next.
C28_OnUpdateOncePerUnsentEntry ==
    site.op = "send_stock_information"
        => LET expected == ExpectedUpdates(site.table)
           IN  /\ Len(site.log) <= Len(expected)
               /\ site.log = SubSeq(expected, 1, Len(site.log))
               /\ site.at = "loop"
                    => Len(site.log) + Len(site.todo) = Len(expected)
               /\ site.at = "done" => site.log = expected
               /\ site.at = "raised" => site.exc # "TypeError"

\* Three entries, the second one already sent; on_update raised TypeError
\* for one of the others, and both were called, in order.
C28_Witness ==
    /\ site.op = "send_stock_information"
    /\ site.at = "done"
    /\ Len(site.table) = 3
    /\ site.table[2].custom_submitted_successfully = 1
    /\ site.errors = 1
    /\ site.log = << Event("on_update", "SLE-1"), Event("on_update", "SLE-3") >>

====
